---- MODULE Spec2Model ----
(***************************************************************************)
(* A model of the DSP package (src/__init__.py): the on-the-fly circular   *)
(* buffer convolver OTFConvolver, the DigitalSignal array type, the        *)
(* SignalGenerator and the mixer family.                                   *)
(*                                                                         *)
(* Numbers are exact: a complex value is the pair <<re, im>> of integers,  *)
(* a real array is a sequence of integers.  Python's 0-based index i of an *)
(* array a is position i+1 of the sequence that models a.                  *)
(***************************************************************************)
EXTENDS Integers, Sequences, FiniteSets, TLC

(***************************************************************************)
(* Bounds of the model.                                                    *)
(***************************************************************************)
MaxK == 3          \* longest FIR kernel handed to a convolver
MaxCalls == 5      \* calls of next() over all convolver objects

(***************************************************************************)
(* Complex arithmetic, as numpy does it on complex128 values.              *)
(***************************************************************************)
Cx(re, im) == <<re, im>>
CZero == Cx(0, 0)
CAdd(a, b) == Cx(a[1] + b[1], a[2] + b[2])
CMul(a, b) == Cx(a[1] * b[1] - a[2] * b[2], a[1] * b[2] + a[2] * b[1])

RECURSIVE CSum(_)
\* ndarray.sum() of a complex array; the sum of an empty array is 0
CSum(a) == IF a = <<>> THEN CZero ELSE CAdd(Head(a), CSum(Tail(a)))

\* F * x, the elementwise product of two arrays of the same length
ElementwiseProduct(F, x) == [n \in 1..Len(F) |-> CMul(F[n], x[n])]

\* a[lo:], the slice from Python index lo to the end
SliceFrom(a, lo) == SubSeq(a, lo + 1, Len(a))
\* a[:hi], the slice of the Python indices below hi
SliceTo(a, hi) == SubSeq(a, 1, hi)

\* NP.zeros(K).astype(complex)
zeros(K) == [n \in 1..K |-> CZero]

(***************************************************************************)
(* Inputs.                                                                 *)
(***************************************************************************)
Insts == {"a", "b"}                      \* the convolver objects of a run
Samples == {Cx(1, 0), Cx(2, 1)}          \* input samples
\* the kernel of K taps with one tap 1 at Python index p, the others 0
Impulse(K, p) == [n \in 1..K |-> IF n = p + 1 THEN Cx(1, 0) ELSE CZero]
\* the kernel of K taps 1
Ones(K) == [n \in 1..K |-> Cx(1, 0)]
\* FIRfilter arguments: for each length K up to MaxK (K = 0 included) the
\* unit impulses and the all-ones kernel, and two kernels of complex taps
Kernels ==
  {Ones(K) : K \in 0..MaxK} \cup
  UNION {{Impulse(K, p) : p \in 0..(K - 1)} : K \in 0..MaxK} \cup
  {<<Cx(0, 1), Cx(2, 0)>>, <<Cx(1, 1), Cx(0, 0), Cx(0 - 1, 2)>>}
\* the data argument: None (the default) or a list of samples
NoData == [given |-> FALSE, val |-> <<>>]
DataArgs ==
  {NoData} \cup {[given |-> TRUE, val |-> d] :
                   d \in {<<>>, <<Cx(1, 0)>>, <<Cx(1, 0), Cx(2, 1)>>}}
\* Python truth value of the data argument: None and [] are false
Truthy(d) == d.given /\ Len(d.val) > 0

(***************************************************************************)
(* What a call of next() hands to its caller.                              *)
(***************************************************************************)
RetNone == [kind |-> "None", val |-> CZero]
RetValue(v) == [kind |-> "value", val |-> v]
RetRaise(e) == [kind |-> e, val |-> CZero]

(***************************************************************************)
(* OTFConvolver.  An object is a record of its attributes; status tells    *)
(* whether the constructor returned ("built") or which exception left it.  *)
(* M is <<>> while the attribute M is not set.                             *)
(***************************************************************************)
Unbuilt ==
  [status |-> "unbuilt", F |-> <<>>, K |-> 0, circ_buf |-> <<>>,
   filtered |-> <<>>, oldest |-> 0, data |-> <<>>, M |-> <<>>,
   returned |-> <<>>]

\* OTFConvolver.__init__: with data the loop body names the undefined
\* variable `sample`, so evaluating the argument of the first
\* convolution_step call raises NameError before the call is made.
OTFConvolver_init(FIRfilter, data) ==
  LET self0 == [Unbuilt EXCEPT !.F = FIRfilter,
                               !.K = Len(FIRfilter),
                               !.circ_buf = zeros(Len(FIRfilter)),
                               !.filtered = <<>>,
                               !.oldest = 0]
  IN IF Truthy(data)
       THEN [self0 EXCEPT !.data = data.val,
                          !.M = <<Len(data.val)>>,
                          !.status = "NameError"]
       ELSE [self0 EXCEPT !.data = <<>>, !.status = "built"]

\* the buffer read in rotated order:
\* NP.append(circ_buf[oldest:], circ_buf[:oldest])
Rotated(circ_buf, oldest) ==
  SliceFrom(circ_buf, oldest) \o SliceTo(circ_buf, oldest)

\* (self.F * NP.append(...)).sum()
SumProd(self) == CSum(ElementwiseProduct(self.F, Rotated(self.circ_buf, self.oldest)))

\* convolution_step as its docstring words it: the sample is inserted at
\* `oldest` first, then the filter is applied, then oldest advances
convolution_step_insert_first(self, sample) ==
  IF self.K = 0
    THEN [obj |-> [self EXCEPT !.filtered = Append(self.filtered, CZero)],
          ret |-> RetRaise("ZeroDivisionError")]
    ELSE LET self1 == [self EXCEPT !.circ_buf[self.oldest + 1] = sample]
             sumprod == SumProd(self1)
         IN [obj |-> [self1 EXCEPT !.filtered = Append(self.filtered, sumprod),
                                   !.oldest = (self.oldest + 1) % self.K],
             ret |-> RetValue(sumprod)]

\* convolution_step with the pointer advanced without the modulus
convolution_step_no_wrap(self, sample) ==
  LET sumprod == SumProd(self)
      self1 == [self EXCEPT !.filtered = Append(self.filtered, sumprod)]
  IN IF self.K = 0
       THEN [obj |-> self1, ret |-> RetRaise("ZeroDivisionError")]
       ELSE LET oldest1 == self.oldest + 1
            IN [obj |-> [self1 EXCEPT !.oldest = oldest1,
                                      !.circ_buf[oldest1 + 1] = sample],
                ret |-> RetValue(sumprod)]

\* OTFConvolver.convolution_step, up to its return: the pair of the object
\* after the call and the outcome.  With K = 0 the modulus raises
\* ZeroDivisionError after the append to filtered.
convolution_step(self, sample) ==
  LET sumprod == SumProd(self)
      self1 == [self EXCEPT !.filtered = Append(self.filtered, sumprod)]
  IN IF self.K = 0
       THEN [obj |-> self1, ret |-> RetRaise("ZeroDivisionError")]
       ELSE LET oldest1 == (self.oldest + 1) % self.K
            IN [obj |-> [self1 EXCEPT !.oldest = oldest1,
                                      !.circ_buf[oldest1 + 1] = sample],
                ret |-> RetValue(sumprod)]

\* next with the priming test off by one (idx < K - 1)
next_primes_early(self, sample) ==
  LET self1 == [self EXCEPT !.data = Append(self.data, sample)]
      idx == Len(self1.data)
  IN IF idx < self.K - 1
       THEN [self1 EXCEPT !.circ_buf[idx + 1] = sample,
                          !.filtered = Append(self1.filtered, CZero),
                          !.returned = Append(self1.returned, RetNone)]
       ELSE LET r == convolution_step(self1, sample)
            IN IF r.ret.kind = "value"
                 THEN [r.obj EXCEPT !.filtered = Append(r.obj.filtered, r.ret.val),
                                    !.returned = Append(r.obj.returned, r.ret)]
                 ELSE [r.obj EXCEPT !.returned = Append(r.obj.returned, r.ret)]

\* next with the pointer advanced while the buffer is still filling
next_rotates_unprimed(self, sample) ==
  LET self1 == [self EXCEPT !.data = Append(self.data, sample)]
      idx == Len(self1.data)
  IN IF idx < self.K
       THEN [self1 EXCEPT !.circ_buf[idx + 1] = sample,
                          !.oldest = (self.oldest + 1) % self.K,
                          !.filtered = Append(self1.filtered, CZero),
                          !.returned = Append(self1.returned, RetNone)]
       ELSE LET r == convolution_step(self1, sample)
            IN IF r.ret.kind = "value"
                 THEN [r.obj EXCEPT !.filtered = Append(r.obj.filtered, r.ret.val),
                                    !.returned = Append(r.obj.returned, r.ret)]
                 ELSE [r.obj EXCEPT !.returned = Append(r.obj.returned, r.ret)]

\* OTFConvolver.next: the object after the call, the outcome recorded in
\* returned
next(self, sample) ==
  LET self1 == [self EXCEPT !.data = Append(self.data, sample)]
      idx == Len(self1.data)
  IN IF idx < self.K
       THEN [self1 EXCEPT !.circ_buf[idx + 1] = sample,
                          !.filtered = Append(self1.filtered, CZero),
                          !.returned = Append(self1.returned, RetNone)]
       ELSE LET r == convolution_step(self1, sample)
            IN IF r.ret.kind = "value"
                 THEN [r.obj EXCEPT !.filtered = Append(r.obj.filtered, r.ret.val),
                                    !.returned = Append(r.obj.returned, r.ret)]
                 ELSE [r.obj EXCEPT !.returned = Append(r.obj.returned, r.ret)]

(***************************************************************************)
(* DigitalSignal.  A signal is a record: dtype is the storage type of the  *)
(* ndarray ("float" or "complex"), info its info dict (the mode and the    *)
(* entries of the components, keyed by their index), s its samples (the    *)
(* imaginary parts of a float array are 0).  Noise is kept apart from the  *)
(* samples: the value of sample i is s[i] + scale * nz[i], where nz[i] is  *)
(* the pair of unit normal draws added to it and scale the standard        *)
(* deviation handed to NP.random.normal.  A mode string is the sequence of *)
(* its characters.  buffer and dict say whose memory the samples and the   *)
(* info dict are: "own" when the operation that made the signal allocated  *)
(* them, "signal" or "LO" when they are those of an argument handed to a   *)
(* mixer (a view shares the buffer of its base, and __array_finalize__     *)
(* hands the info dict of an array to every array derived from it).        *)
(***************************************************************************)
MaxLen == 2        \* longest I or Q array handed to DigitalSignal

ModeReal == <<"r", "e", "a", "l">>
ModeAnalytic == <<"a", "n", "a", "l", "y", "t", "i", "c">>
ModeComplex == <<"c", "o", "m", "p", "l", "e", "x">>

Min(a, b) == IF a < b THEN a ELSE b

\* an optional ndarray argument: None, or an array of reals
NoArray == [given |-> FALSE, val |-> <<>>]
Arr(a) == [given |-> TRUE, val |-> a]

\* a noise scale: num, or num / sqrt(2)
NoNoise == [num |-> 0, sqrt2 |-> FALSE]
Scale(num, sqrt2) == [num |-> num, sqrt2 |-> sqrt2]

\* the unit normal draws of NP.random.normal(0, scale, size=M): a source of
\* draws is a pair of values, repeated
NoiseSources == {<<1, 0 - 1>>, <<0 - 1, 2>>}
Draws(src, M) == [i \in 1..M |-> src[((i - 1) % 2) + 1]]

\* obj.real = src (or obj.imag = src) on an array of n elements: numpy takes
\* a source of n elements, broadcasts a source of one element, and raises
\* ValueError for any other length
CanAssign(n, src) == Len(src) = n \/ Len(src) = 1
Assigned(n, src) == [i \in 1..n |-> IF Len(src) = n THEN src[i] ELSE src[1]]

\* the info dict {"mode": mode}
Info(mode) == [mode |-> mode, comps |-> <<>>]

NoSignal ==
  [status |-> "none", dtype |-> "none", info |-> Info(<<>>), s |-> <<>>,
   nz |-> <<>>, scale |-> NoNoise, buffer |-> "none", dict |-> "none"]
\* no object: the constructor raised e
Raised(e) == [NoSignal EXCEPT !.status = e]
Signal(dtype, mode, samples) ==
  [status |-> "ok", dtype |-> dtype, info |-> Info(mode), s |-> samples,
   nz |-> [i \in 1..Len(samples) |-> CZero], scale |-> NoNoise,
   buffer |-> "own", dict |-> "own"]

\* the tail of DigitalSignal.__new__: if rms, noise of scale rms/sqrt(2) is
\* added to obj.real and to obj.imag.  The imag of a float array is a
\* read-only array of zeros, so the second += raises ValueError.
WithNoise(obj, rms, srcRe, srcIm) ==
  IF rms = 0 THEN obj
  ELSE IF obj.dtype = "float" THEN Raised("ValueError")
  ELSE [obj EXCEPT !.nz = [i \in 1..Len(obj.s) |->
                             Cx(Draws(srcRe, Len(obj.s))[i], Draws(srcIm, Len(obj.s))[i])],
                   !.scale = Scale(rms, TRUE)]

\* DigitalSignal.__new__(M, I, Q, rms); rms = 0 stands for None
DigitalSignal_new(M, I, Q, rms, srcRe, srcIm) ==
  LET n_I == Len(I.val)
      n_Q == Len(Q.val)
      M1 == IF I.given THEN (IF Q.given THEN Min(n_I, n_Q) ELSE n_I) ELSE M
  IN IF I.given /\ Q.given
       THEN \* obj.real = I; obj.imag = NP.zeros(n_I); obj.imag = Q
            IF CanAssign(M1, I.val) /\ CanAssign(M1, Q.val)
              THEN WithNoise(Signal("complex", ModeComplex,
                                    [i \in 1..M1 |-> Cx(Assigned(M1, I.val)[i],
                                                        Assigned(M1, Q.val)[i])]),
                             rms, srcRe, srcIm)
              ELSE Raised("ValueError")
     ELSE IF I.given
       THEN WithNoise(Signal("float", ModeReal, [i \in 1..M1 |-> Cx(I.val[i], 0)]),
                      rms, srcRe, srcIm)
     ELSE IF Q.given
       THEN Raised("ValueError")
     ELSE WithNoise(Signal("complex", ModeComplex, zeros(M1)), rms, srcRe, srcIm)

\* the arguments of DigitalSignal
SeqsUpTo(S, n) == UNION {[1..k -> S] : k \in 0..n}
RealArrays == SeqsUpTo({1, 2}, MaxLen)
ArrayArgs == {NoArray} \cup {Arr(a) : a \in RealArrays}
RmsArgs == {0, 1, 2}

(***************************************************************************)
(* SignalGenerator.  Sample counts M are 1, 2 or 4 and frequencies are     *)
(* integers, so every angle 2 pi (freq m / M + phase) is a whole number of *)
(* quarter turns and cos, sin and exp are exact.  In the modes real and    *)
(* analytic a component is <<amplitude, frequency, phase>> with the phase  *)
(* counted in quarter cycles (comp[2] = phase / 4); in the mode complex it *)
(* is <<frequency, real coefficient, imaginary coefficient>>.              *)
(***************************************************************************)
\* cos and sin of q quarter turns
Cos4(q) == CASE q % 4 = 0 -> 1 [] q % 4 = 1 -> 0 [] q % 4 = 2 -> 0 - 1 [] OTHER -> 0
Sin4(q) == Cos4(q - 1)
\* 4 * freq * m / M, the quarter turns of 2 pi freq m / M
QuarterTurns(freq, m, M) == (4 * freq * m) \div M

\* str.lower() on the characters of the mode strings
LowerChar(ch) ==
  CASE ch = "R" -> "r" [] ch = "A" -> "a" [] ch = "C" -> "c" [] OTHER -> ch
Lower(mode) == [i \in 1..Len(mode) |-> LowerChar(mode[i])]
\* a in b, on strings: a is a substring of b
IsSubstring(a, b) ==
  \E i \in 0..(Len(b) - Len(a)) : SubSeq(b, i + 1, i + Len(a)) = a

\* components.index(comp): the first Python index holding a value equal to comp
IndexOf(components, comp) ==
  (CHOOSE i \in 1..Len(components) :
     /\ components[i] = comp
     /\ \A j \in 1..(i - 1) : components[j] # comp) - 1

\* the info entry written for a component
Entry(keys, comp) == [keys |-> keys, vals |-> comp]
KeysPolar == <<"ampl", "freq", "phas">>
KeysRect == <<"freq", "ampI", "ampQ">>

\* the term one component adds to sample m (0-based) in each branch
RealTerm(comp, m, M) ==
  Cx(comp[1] * Cos4(QuarterTurns(comp[2], m, M) + comp[3]), 0)
AnalyticTerm(comp, m, M) ==
  Cx((comp[1] * Cos4(QuarterTurns(comp[2], m, M) + comp[3])) \div 2,
     (comp[1] * Sin4(QuarterTurns(comp[2], m, M) + comp[3])) \div 2)
ComplexTerm(comp, m, M) ==
  CMul(Cx(Cos4(QuarterTurns(comp[1], m, M)), Sin4(QuarterTurns(comp[1], m, M))),
       Cx(comp[2], comp[3]))
Term(branch, comp, m, M) ==
  CASE branch = "real" -> RealTerm(comp, m, M)
    [] branch = "analytic" -> AnalyticTerm(comp, m, M)
    [] OTHER -> ComplexTerm(comp, m, M)

RECURSIVE AddComponents(_, _, _, _, _)
\* the loop `for comp in components` of one branch, over the first k
\* components: S += term; S.info[components.index(comp)] = entry
AddComponents(S, components, k, branch, M) ==
  IF k = 0 THEN S
  ELSE LET S1 == AddComponents(S, components, k - 1, branch, M)
           comp == components[k]
           idx == IndexOf(components, comp)
           keys == IF branch = "complex" THEN KeysRect ELSE KeysPolar
       IN [S1 EXCEPT !.s = [i \in 1..Len(S1.s) |-> CAdd(S1.s[i], Term(branch, comp, i - 1, M))],
                     !.info.comps = (idx :> Entry(keys, comp)) @@ S1.info.comps]

\* S.astype(float): the real parts, the info dict shared
AsFloat(S) ==
  [S EXCEPT !.dtype = "float", !.s = [i \in 1..Len(S.s) |-> Cx(S.s[i][1], 0)],
            !.buffer = "own"]

NoGen ==
  [status |-> "none", mode |-> <<>>, M |-> 0, components |-> <<>>, S |-> NoSignal]

\* SignalGenerator.add_noise(fraction): noise of scale fraction/sqrt(2) on
\* the real and imaginary parts when self.mode is "complex" or "analytic",
\* noise of scale fraction on the real parts otherwise
add_noise(self, fraction, srcRe, srcIm) ==
  LET M == Len(self.S.s)
  IN IF self.mode = ModeComplex \/ self.mode = ModeAnalytic
       THEN [self EXCEPT !.S.nz = [i \in 1..M |-> Cx(Draws(srcRe, M)[i], Draws(srcIm, M)[i])],
                         !.S.scale = Scale(fraction, TRUE)]
       ELSE [self EXCEPT !.S.nz = [i \in 1..M |-> Cx(Draws(srcRe, M)[i], 0)],
                         !.S.scale = Scale(fraction, FALSE)]

\* SignalGenerator.__init__(mode, M, components, rms); rms = 0 stands for
\* None and <<>> for no components.  add_noise is called without argument,
\* so with fraction = 1.
SignalGenerator_init(mode, M, components, rms, srcRe, srcIm) ==
  LET S0 == DigitalSignal_new(M, NoArray, NoArray, 0, srcRe, srcIm)
      self0 == [status |-> "ok", mode |-> mode, M |-> M,
                components |-> components, S |-> S0]
      S1 == [S0 EXCEPT !.info.mode = Lower(mode)]
      n == Len(components)
      built ==
        IF components = <<>> THEN self0
        ELSE IF IsSubstring(Lower(mode), ModeReal)
          THEN [self0 EXCEPT !.S = AddComponents(AsFloat(S1), components, n, "real", M)]
        ELSE IF IsSubstring(Lower(mode), ModeAnalytic)
          THEN [self0 EXCEPT !.S = AddComponents(S1, components, n, "analytic", M)]
        ELSE IF IsSubstring(Lower(mode), ModeComplex)
          THEN [self0 EXCEPT !.S = AddComponents(S1, components, n, "complex", M)]
        ELSE [NoGen EXCEPT !.status = "ValueError"]
  IN IF built.status = "ok" /\ rms # 0
       THEN add_noise(built, 1, srcRe, srcIm)
       ELSE built

\* S.real: the float view of the real parts, the info dict shared
RealPart(S) ==
  [S EXCEPT !.dtype = "float",
            !.s = [i \in 1..Len(S.s) |-> Cx(S.s[i][1], 0)],
            !.nz = [i \in 1..Len(S.nz) |-> Cx(S.nz[i][1], 0)]]
\* S.imag of a complex array: the float view of the imaginary parts
ImagPart(S) ==
  [S EXCEPT !.dtype = "float",
            !.s = [i \in 1..Len(S.s) |-> Cx(S.s[i][2], 0)],
            !.nz = [i \in 1..Len(S.nz) |-> Cx(S.nz[i][2], 0)]]

\* SignalGenerator.signal()
signal(self) == IF self.mode = ModeReal THEN RealPart(self.S) ELSE self.S

\* the arguments of SignalGenerator
Modes ==
  {ModeReal, ModeAnalytic, ModeComplex, <<"R", "e", "a", "l">>, <<"a", "l">>,
   <<"b", "o", "g", "u", "s">>}
GenLens == {2, 4}
ComponentLists ==
  {<<>>, <<<<2, 1, 0>>>>, <<<<1, 2, 1>>>>, <<<<2, 1, 0>>, <<1, 2, 1>>>>,
   <<<<2, 1, 0>>, <<2, 1, 0>>>>}
\* the halves amplitude/2 of the analytic branch are whole numbers
Exact(mode, components) ==
  (~IsSubstring(Lower(mode), ModeReal) /\ IsSubstring(Lower(mode), ModeAnalytic))
    => \A k \in 1..Len(components) : components[k][1] % 2 = 0

(***************************************************************************)
(* The mixers.  An argument is None (NoSignal) or a signal without noise.  *)
(* A mixer is a record: cls its class, status "ok" or the exception its    *)
(* constructor raised, IF its attribute IF (Unset while the attribute does *)
(* not exist, NoSignal for None), log the records its logger received at   *)
(* the levels warning and error, ret the value the last call of mixed()    *)
(* returned, calls the number of calls of mixed() made on the object,       *)
(* wrote the memory its constructor and its calls of mixed() wrote into.   *)
(***************************************************************************)
DefaultM == 1024
MaxMixed == 2

Unset == [NoSignal EXCEPT !.status = "unset"]
IsNone(x) == x.status = "none"
\* issubclass(type(x), NP.ndarray)
IsNdarray(x) == x.status = "ok"

NoMixer ==
  [cls |-> "none", status |-> "none", IF_ |-> Unset, log |-> <<>>, ret |-> Unset,
   calls |-> 0, wrote |-> {}]
NewMixer(cls) == [NoMixer EXCEPT !.cls = cls, !.status = "ok"]
LogRecord(level, msg) == [level |-> level, msg |-> msg]

\* a store into the samples of x, and into the info dict of x
WriteSamples(x) == [part |-> "samples", of |-> x.buffer]
WriteInfo(x) == [part |-> "info", of |-> x.dict]
\* the argument x as the mixer sees it: the caller's array
Argument(x, who) == IF IsNone(x) THEN x ELSE [x EXCEPT !.buffer = who, !.dict = who]

Re(x) == [i \in 1..Len(x) |-> x[i][1]]
Im(x) == [i \in 1..Len(x) |-> x[i][2]]

\* a variant of BasicMixer.mixed that truncates a longer LO without a warning
BasicMixer_mixed_silent(self, signal_, LO) ==
  LET n_signal == Len(signal_.s)
      n_LO == Len(LO.s)
      n == Min(n_signal, n_LO)
      warned ==
        IF n_signal > n_LO
          THEN <<LogRecord("warning", "mixed: signal truncated to length of LO")>>
          ELSE <<>>
      product == [i \in 1..n |-> CMul(signal_.s[i], LO.s[i])]
      product_IF == IF signal_.dtype = "float" /\ LO.dtype = "float"
               THEN DigitalSignal_new(DefaultM, Arr(Re(product)), NoArray, 0, <<0, 0>>, <<0, 0>>)
               ELSE DigitalSignal_new(DefaultM, Arr(Re(product)), Arr(Im(product)), 0,
                                      <<0, 0>>, <<0, 0>>)
  IN [self EXCEPT !.IF_ = product_IF, !.ret = product_IF, !.log = self.log \o warned,
                  !.wrote = self.wrote \cup {WriteSamples(product_IF)}]

\* a variant of BasicMixer.mixed that wraps every product as I and Q
BasicMixer_mixed_always_complex(self, signal_, LO) ==
  LET n_signal == Len(signal_.s)
      n_LO == Len(LO.s)
      n == Min(n_signal, n_LO)
      warned ==
        IF n_signal = n_LO THEN <<>>
        ELSE IF n_signal > n_LO
          THEN <<LogRecord("warning", "mixed: signal truncated to length of LO")>>
        ELSE <<LogRecord("warning", "mixed: LO truncated to length of signal")>>
      product == [i \in 1..n |-> CMul(signal_.s[i], LO.s[i])]
      product_IF == DigitalSignal_new(DefaultM, Arr(Re(product)), Arr(Im(product)), 0,
                                      <<0, 0>>, <<0, 0>>)
  IN [self EXCEPT !.IF_ = product_IF, !.ret = product_IF, !.log = self.log \o warned,
                  !.wrote = self.wrote \cup {WriteSamples(product_IF)}]

\* BasicMixer.mixed: the longer array is truncated with a warning, the
\* product is wrapped in a new DigitalSignal
BasicMixer_mixed(self, signal_, LO) ==
  LET n_signal == Len(signal_.s)
      n_LO == Len(LO.s)
      n == Min(n_signal, n_LO)
      warned ==
        IF n_signal = n_LO THEN <<>>
        ELSE IF n_signal > n_LO
          THEN <<LogRecord("warning", "mixed: signal truncated to length of LO")>>
        ELSE <<LogRecord("warning", "mixed: LO truncated to length of signal")>>
      product == [i \in 1..n |-> CMul(signal_.s[i], LO.s[i])]
      product_IF == IF signal_.dtype = "float" /\ LO.dtype = "float"
               THEN DigitalSignal_new(DefaultM, Arr(Re(product)), NoArray, 0, <<0, 0>>, <<0, 0>>)
               ELSE DigitalSignal_new(DefaultM, Arr(Re(product)), Arr(Im(product)), 0,
                                      <<0, 0>>, <<0, 0>>)
  IN [self EXCEPT !.IF_ = product_IF, !.ret = product_IF, !.log = self.log \o warned,
                  !.wrote = self.wrote \cup {WriteSamples(product_IF)}]

\* BasicMixer.__init__
BasicMixer_init(self, signal_, LO) ==
  IF IsNone(signal_) \/ IsNone(LO)
    THEN [self EXCEPT !.IF_ = NoSignal]
    ELSE [BasicMixer_mixed(self, signal_, LO) EXCEPT !.ret = self.ret]

\* a variant of the check that looks at the dtype of the signal only
check_float_any(signal_, LO) ==
  IF IsNdarray(signal_) /\ IsNdarray(LO)
    THEN IF signal_.dtype # "float" THEN "False" ELSE "True"
    ELSE "None"
\* SimpleMixer._check_inputs and ComplexMixer._check_inputs: "True", "False",
\* or "None" when the function falls off its end
check_float_float(signal_, LO) ==
  IF IsNdarray(signal_) /\ IsNdarray(LO)
    THEN IF signal_.dtype # "float" \/ LO.dtype # "float" THEN "False" ELSE "True"
    ELSE "None"
\* ParallelMixer._check_inputs
check_complex_float(signal_, LO) ==
  IF IsNdarray(signal_) /\ IsNdarray(LO)
    THEN IF signal_.dtype # "complex" \/ LO.dtype # "float" THEN "False" ELSE "True"
    ELSE "None"
\* the logger.error record of a failed check
CheckLog(chk, signalOK, msgSignal, msgLO) ==
  IF chk = "False"
    THEN <<LogRecord("error", IF signalOK THEN msgLO ELSE msgSignal)>>
    ELSE <<>>
LogFloatFloat(self, signal_, LO) ==
  [self EXCEPT !.log = self.log \o
     CheckLog(check_float_float(signal_, LO), signal_.dtype = "float",
              "_check_inputs: only dtype float signals allowed",
              "_check_inputs: only dtype float LO allowed")]
LogComplexFloat(self, signal_, LO) ==
  [self EXCEPT !.log = self.log \o
     CheckLog(check_complex_float(signal_, LO), signal_.dtype = "complex",
              "_check_inputs: only dtype complex signals allowed",
              "_check_inputs: only dtype float LO allowed")]

\* raise ValueError("signal dtype %s or LO dtype %s is wrong" %
\* (signal.dtype, LO.dtype)): None has no dtype, so formatting the message
\* raises AttributeError instead
RaiseWrongDtype(self, signal_, LO) ==
  [self EXCEPT !.status = IF IsNone(signal_) \/ IsNone(LO) THEN "AttributeError"
                          ELSE "ValueError"]

\* SimpleMixer.__init__
SimpleMixer_init(self, signal_, LO) ==
  IF check_float_float(signal_, LO) = "True"
    THEN BasicMixer_init(LogFloatFloat(self, signal_, LO), signal_, LO)
    ELSE RaiseWrongDtype(LogFloatFloat(self, signal_, LO), signal_, LO)

\* SimpleMixer.mixed
SimpleMixer_mixed(self, signal_, LO) ==
  IF check_float_float(signal_, LO) = "True"
    THEN BasicMixer_mixed(LogFloatFloat(self, signal_, LO), signal_, LO)
    ELSE [LogFloatFloat(self, signal_, LO) EXCEPT !.ret = NoSignal]

\* scipy.fftpack.hilbert of a real array of 1, 2 or 4 samples: the Fourier
\* coefficients are multiplied by i*sign(frequency), the mean and the
\* Nyquist mode by 0
Hilbert(x) ==
  IF Len(x) = 4
    THEN LET a == x[1] - x[3]
             b == x[2] - x[4]
         IN <<b \div 2, (0 - a) \div 2, (0 - b) \div 2, a \div 2>>
    ELSE [i \in 1..Len(x) |-> 0]

\* the imaginary part of scipy.signal.hilbert of a real array of 1, 2 or 4
\* samples: the analytic signal keeps the mean and the Nyquist mode, doubles
\* the positive frequencies and drops the negative ones
AnalyticImag(x) ==
  IF Len(x) = 4
    THEN LET a == x[1] - x[3]
             b == x[2] - x[4]
         IN <<(0 - b) \div 2, a \div 2, b \div 2, (0 - a) \div 2>>
    ELSE [i \in 1..Len(x) |-> 0]
\* QuadratureSplitter.split: scipy.signal.hilbert(signal)/2
QuadratureSplitter_split(signal_) ==
  LET Q == AnalyticImag(Re(signal_.s))
  IN [signal_ EXCEPT !.dtype = "complex", !.buffer = "own",
                     !.s = [i \in 1..Len(signal_.s) |-> Cx(signal_.s[i][1] \div 2, Q[i] \div 2)]]
\* the halves taken by split are whole numbers
SplitExact(signal_) ==
  /\ \A i \in 1..Len(signal_.s) : signal_.s[i][1] % 2 = 0
  /\ \A i \in 1..Len(signal_.s) : AnalyticImag(Re(signal_.s))[i] % 2 = 0

\* QuadratureHybrid.convert of a real signal, and qlo = I + 1j*Q
QuadratureLO(LO) ==
  LET paths == Hilbert(Re(LO.s))
  IN [LO EXCEPT !.dtype = "complex", !.buffer = "own",
                !.s = [i \in 1..Len(LO.s) |-> Cx(LO.s[i][1], LO.s[i][2] + paths[i])]]

\* a variant of ComplexMixer.mixed that sets the mode on the info dict of the
\* signal as well
ComplexMixer_mixed_marks_signal(self, signal_, LO) ==
  IF check_float_float(signal_, LO) = "True"
    THEN LET m1 == BasicMixer_mixed(LogFloatFloat(self, signal_, LO), signal_, QuadratureLO(LO))
             product_IF == [m1.IF_ EXCEPT !.info.mode = ModeComplex]
         IN [m1 EXCEPT !.IF_ = product_IF, !.ret = product_IF,
                       !.wrote = m1.wrote \cup {WriteInfo(product_IF), WriteInfo(signal_)}]
    ELSE [LogFloatFloat(self, signal_, LO) EXCEPT !.ret = NoSignal]

\* ComplexMixer.mixed
ComplexMixer_mixed(self, signal_, LO) ==
  IF check_float_float(signal_, LO) = "True"
    THEN LET m1 == BasicMixer_mixed(LogFloatFloat(self, signal_, LO), signal_, QuadratureLO(LO))
             product_IF == [m1.IF_ EXCEPT !.info.mode = ModeComplex]
         IN [m1 EXCEPT !.IF_ = product_IF, !.ret = product_IF,
                       !.wrote = m1.wrote \cup {WriteInfo(product_IF)}]
    ELSE [LogFloatFloat(self, signal_, LO) EXCEPT !.ret = NoSignal]

\* ComplexMixer.__init__: after BasicMixer.__init__ the mixing is done over
\* again with the quadrature LO
ComplexMixer_init(self, signal_, LO) ==
  IF check_float_float(signal_, LO) = "True"
    THEN LET m1 == BasicMixer_init(LogFloatFloat(self, signal_, LO), signal_, LO)
         IN [ComplexMixer_mixed(m1, signal_, LO) EXCEPT !.ret = self.ret]
    ELSE RaiseWrongDtype(LogFloatFloat(self, signal_, LO), signal_, LO)

\* ParallelMixer.__init__: a failed check raises nothing and leaves the
\* attribute IF unset
ParallelMixer_init(self, signal_, LO) ==
  IF check_complex_float(signal_, LO) = "True"
    THEN BasicMixer_init(LogComplexFloat(self, signal_, LO), signal_, LO)
    ELSE LogComplexFloat(self, signal_, LO)

\* a variant of ParallelMixer.mixed that mixes signal.real in both channels
ParallelMixer_mixed_I_twice(self, signal_, LO) ==
  IF check_complex_float(signal_, LO) = "True"
    THEN LET m1 == SimpleMixer_mixed(LogComplexFloat(self, signal_, LO), RealPart(signal_), LO)
             m2 == SimpleMixer_mixed(m1, RealPart(signal_), LO)
             product_IF == [m1.IF_ EXCEPT !.dtype = "complex", !.buffer = "own",
                                  !.info.mode = ModeComplex,
                                  !.s = [i \in 1..Len(m1.IF_.s) |->
                                           Cx(m1.IF_.s[i][1], m2.IF_.s[i][1])]]
         IN [m2 EXCEPT !.IF_ = product_IF, !.ret = product_IF,
                       !.wrote = m2.wrote \cup {WriteSamples(product_IF), WriteInfo(product_IF)}]
    ELSE [LogComplexFloat(self, signal_, LO) EXCEPT !.ret = NoSignal]

\* ParallelMixer.mixed: SimpleMixer.mixed on signal.real and on signal.imag,
\* recombined as I + 1j*Q with the mode set to "complex"
ParallelMixer_mixed(self, signal_, LO) ==
  IF check_complex_float(signal_, LO) = "True"
    THEN LET m1 == SimpleMixer_mixed(LogComplexFloat(self, signal_, LO), RealPart(signal_), LO)
             m2 == SimpleMixer_mixed(m1, ImagPart(signal_), LO)
             product_IF == [m1.IF_ EXCEPT !.dtype = "complex", !.buffer = "own",
                                  !.info.mode = ModeComplex,
                                  !.s = [i \in 1..Len(m1.IF_.s) |->
                                           Cx(m1.IF_.s[i][1], m2.IF_.s[i][1])]]
         IN [m2 EXCEPT !.IF_ = product_IF, !.ret = product_IF,
                       !.wrote = m2.wrote \cup {WriteSamples(product_IF), WriteInfo(product_IF)}]
    ELSE [LogComplexFloat(self, signal_, LO) EXCEPT !.ret = NoSignal]

\* cls(signal, LO)
Mixer_init(cls, signal_, LO) ==
  CASE cls = "BasicMixer" -> BasicMixer_init(NewMixer(cls), signal_, LO)
    [] cls = "SimpleMixer" -> SimpleMixer_init(NewMixer(cls), signal_, LO)
    [] cls = "ComplexMixer" -> ComplexMixer_init(NewMixer(cls), signal_, LO)
    [] OTHER -> ParallelMixer_init(NewMixer(cls), signal_, LO)
\* self.mixed(signal, LO)
Mixer_mixed(self, signal_, LO) ==
  CASE self.cls = "BasicMixer" -> BasicMixer_mixed(self, signal_, LO)
    [] self.cls = "SimpleMixer" -> SimpleMixer_mixed(self, signal_, LO)
    [] self.cls = "ComplexMixer" -> ComplexMixer_mixed(self, signal_, LO)
    [] OTHER -> ParallelMixer_mixed(self, signal_, LO)

MixerClasses == {"BasicMixer", "SimpleMixer", "ComplexMixer", "ParallelMixer"}
\* signals made by the generator, handed to the mixers
Tone(mode, M, comp) ==
  signal(SignalGenerator_init(mode, M, <<comp>>, 0, <<0, 0>>, <<0, 0>>))
MixerSignals ==
  {DigitalSignal_new(4, NoArray, NoArray, 0, <<0, 0>>, <<0, 0>>),
   Tone(ModeReal, 4, <<2, 1, 0>>), Tone(ModeReal, 2, <<2, 1, 0>>),
   Tone(ModeReal, 4, <<1, 1, 1>>),
   Tone(ModeAnalytic, 4, <<2, 1, 0>>), Tone(ModeComplex, 4, <<1, 2, 1>>)}
MixerArgs == {NoSignal} \cup MixerSignals

(***************************************************************************)
(* Spectra of mixed tones.  For N = 4 and N = 6 samples the N-th roots of  *)
(* unity lie in the ring of the numbers a + b sqrt(-D) with D = 1 and      *)
(* D = 3, so tones, their products and their Fourier transforms are exact: *)
(* a number is the pair <<a, b>> of integers.  To keep the pairs whole a   *)
(* value is stored multiplied by a known factor, its scale: a root of      *)
(* unity by Unit(N) (exp(2 pi i q / 6) = (Cos6(q) + Sin6(q) sqrt(-3)) / 2),*)
(* a product by the product of the scales of its factors.  The phase of a  *)
(* tone is counted in N-ths of a cycle.                                    *)
(***************************************************************************)
Disc(N) == IF N = 4 THEN 1 ELSE 3
Unit(N) == IF N = 4 THEN 1 ELSE 2
\* 2 cos(2 pi q / 6), and 2 sin(2 pi q / 6) / sqrt(3)
Cos6(q) ==
  CASE q % 6 = 0 -> 2 [] q % 6 = 1 -> 1 [] q % 6 = 2 -> 0 - 1 [] q % 6 = 3 -> 0 - 2
    [] q % 6 = 4 -> 0 - 1 [] OTHER -> 1
Sin6(q) ==
  CASE q % 6 \in {1, 2} -> 1 [] q % 6 \in {4, 5} -> 0 - 1 [] OTHER -> 0
\* Unit(N) * exp(2 pi i q / N)
Root(N, q) == IF N = 4 THEN <<Cos4(q), Sin4(q)>> ELSE <<Cos6(q), Sin6(q)>>

ZAdd(x, y) == <<x[1] + y[1], x[2] + y[2]>>
ZMul(N, x, y) == <<x[1] * y[1] - Disc(N) * x[2] * y[2], x[1] * y[2] + x[2] * y[1]>>
ZScale(c, x) == <<c * x[1], c * x[2]>>
\* x * x.conjugate()
ZNorm(N, x) == x[1] * x[1] + Disc(N) * x[2] * x[2]
RECURSIVE ZSumTo(_, _)
ZSumTo(x, n) == IF n = 0 THEN <<0, 0>> ELSE ZAdd(ZSumTo(x, n - 1), x[n])
ZSum(x) == ZSumTo(x, Len(x))
\* a scaled array: the samples v, each multiplied by scale
Scaled(v, scale, mode) == [v |-> v, scale |-> scale, mode |-> mode]

\* the signal of SignalGenerator(mode="real", M=N, components=[comp]),
\* comp[0]*NP.cos(2*NP.pi*(comp[1]*m/M + comp[2])), for comp = <<amplitude,
\* frequency, phase>>
RealTone(N, comp) ==
  Scaled([n \in 1..N |-> <<comp[1] * Root(N, comp[2] * (n - 1) + comp[3])[1], 0>>],
         Unit(N), "real")

\* one coefficient of the discrete Fourier transform,
\* sum of x[n] exp(-2 pi i k n / N)
Fourier(N, x, k) == ZSum([n \in 1..N |-> ZMul(N, x[n], Root(N, 0 - k * (n - 1)))])
\* DigitalSignal.spectrum: rfft (the bins 0..N/2) of a signal of mode "real",
\* fft (the bins 0..N-1) otherwise
spectrum(N, x) ==
  Scaled([k \in (IF x.mode = "real" THEN 0..(N \div 2) ELSE 0..(N - 1)) |->
            Fourier(N, x.v, k)],
         x.scale * Unit(N), x.mode)
\* get_peaks: the bins whose power is above 1
get_peaks(N, spec) ==
  {k \in DOMAIN spec.v : ZNorm(N, spec.v[k]) > spec.scale * spec.scale}

\* a variant of the product that adds the signal and the LO
RealProduct_adds(N, x, lo) ==
  Scaled([n \in 1..N |-> ZAdd(x.v[n], lo.v[n])], x.scale, "real")
\* IF = signal*LO of BasicMixer.mixed, as SimpleMixer delivers it for two
\* real signals and as ParallelMixer delivers each of IF.real and IF.imag
RealProduct(N, x, lo) ==
  Scaled([n \in 1..N |-> ZMul(N, x.v[n], lo.v[n])], x.scale * lo.scale, "real")

\* scipy.fftpack.hilbert multiplies the Fourier coefficient of a positive
\* frequency by i and that of a negative frequency by -i, and drops the mean
\* and the Nyquist mode; qlo = LO + 1j*hilbert(LO) therefore keeps the mean
\* and the Nyquist mode, drops the positive and doubles the negative
\* frequencies
QuadratureWeight(N, k) ==
  IF k = 0 \/ 2 * k = N THEN 1 ELSE IF 2 * k < N THEN 0 ELSE 2
QuadratureTone(N, lo) ==
  Scaled([n \in 1..N |->
            ZSum([j \in 1..N |->
                    ZScale(QuadratureWeight(N, j - 1),
                           ZMul(N, Fourier(N, lo.v, j - 1), Root(N, (j - 1) * (n - 1))))])],
         lo.scale * Unit(N) * Unit(N) * N, "complex")
\* the IF of ComplexMixer: signal * qlo, with the mode "complex"
ComplexProduct(N, x, lo) ==
  LET qlo == QuadratureTone(N, lo)
  IN Scaled([n \in 1..N |-> ZMul(N, x.v[n], qlo.v[n])], x.scale * qlo.scale, "complex")

Abs(x) == IF x < 0 THEN 0 - x ELSE x
\* MixerTester.expected_peaks for one component of frequency freq and the
\* LO frequency lofrq
expected_peaks(cls, freq, lofrq, M) ==
  LET fsum == Abs(freq) + lofrq
      fdif == Abs(freq) - lofrq
      Reflect(t) == IF t >= M \div 2 THEN M - t ELSE t
      ReflectAbove(t) == IF t > M \div 2 THEN M - t ELSE t
      Wrap(t) == IF t < 0 THEN M + t ELSE t
  IN IF cls \in {"SimpleMixer", "ParallelMixer"}
       THEN {Reflect(Abs(fsum)), Reflect(Abs(fdif))}
       ELSE {Wrap(ReflectAbove(fsum)), Wrap(Reflect(fdif))}

\* the peaks of one real IF channel, and of the IF of ComplexMixer
RealPeaks(N, comp, lopars) ==
  get_peaks(N, spectrum(N, RealProduct(N, RealTone(N, comp), RealTone(N, lopars))))
ComplexPeaks(N, comp, lopars) ==
  get_peaks(N, spectrum(N, ComplexProduct(N, RealTone(N, comp), RealTone(N, lopars))))

\* the tones of the peak checks
ToneLens == {4, 6}
Amplitudes == {1, 2}
SignalTones(N) ==
  {<<amp, f, ph>> : amp \in Amplitudes, f \in (1 - N \div 2)..(N \div 2 - 1), ph \in 0..(N - 1)}
LOTones(N) == {<<amp, f0, 0>> : amp \in Amplitudes, f0 \in 1..(N \div 2 - 1)}
NoProbe == [cls |-> "none", N |-> 0, lopars |-> <<>>, channels |-> <<>>]
\* one channel of a peak check: the tone, the peaks found, the peaks expected
Channel(cls, N, comp, lopars, peaks) ==
  [comp |-> comp, peaks |-> peaks, expected |-> expected_peaks(cls, comp[2], lopars[2], N)]

(***************************************************************************)
(* is_quadrature.                                                          *)
(***************************************************************************)
\* x.conjugate()
Conjugate(x) == <<x[1], 0 - x[2]>>
\* ndarray.all(): every element is non-zero (True for an empty array)
All(a) == \A i \in 1..Len(a) : a[i] # 0
\* is_quadrature(signal): False for a signal that is not complex, otherwise
\* the outcome of (signal*signal.conjugate()).imag.all() == 0
is_quadrature(signal_) ==
  IF signal_.dtype # "complex" THEN FALSE
  ELSE All([i \in 1..Len(signal_.s) |-> CMul(signal_.s[i], Conjugate(signal_.s[i]))[2]]) = FALSE
NoQuad == [called |-> FALSE, signal |-> NoSignal, ret |-> FALSE]

(***************************************************************************)
(* State.  conv holds the convolver objects; sig the outcome of the last   *)
(* DigitalSignal(...) call and sigArgs the arguments of that call; gen the *)
(* SignalGenerator object, genArgs the arguments it was constructed with   *)
(* and out what its signal() returned; mixer the                           *)
(* mixer object and mixArgs the signal and LO last handed to it.  The      *)
(* objects share no state, so a run of the signal specification works on   *)
(* one of them: a signal, a generator or a mixer.  probe holds the last    *)
(* peak check made on the IF of a mixer, quad the last call of             *)
(* is_quadrature.                                                          *)
(***************************************************************************)
VARIABLES conv, sig, sigArgs, gen, genArgs, out, mixer, mixArgs, probe, quad

vars == <<conv, sig, sigArgs, gen, genArgs, out, mixer, mixArgs, probe, quad>>
convVars == <<conv>>
sigVars == <<sig, sigArgs, gen, genArgs, out, mixer, mixArgs, probe, quad>>
objVars == <<conv, sig, sigArgs, gen, genArgs, out, mixer, mixArgs, quad>>

TotalCalls == LET RECURSIVE Total(_)
                  Total(S) == IF S = {} THEN 0
                              ELSE LET c == CHOOSE x \in S : TRUE
                                   IN Len(conv[c].returned) + Total(S \ {c})
              IN Total(Insts)

NoArgs == [M |-> 0, I |-> NoArray, Q |-> NoArray, rms |-> 0]

InitConv == conv = [c \in Insts |-> Unbuilt]
NoGenArgs == [mode |-> <<>>, M |-> 0, components |-> <<>>, rms |-> 0]
NoMixArgs == [signal |-> NoSignal, LO |-> NoSignal]
InitSig ==
  /\ sig = NoSignal /\ sigArgs = NoArgs
  /\ gen = NoGen /\ genArgs = NoGenArgs /\ out = Unset
  /\ mixer = NoMixer /\ mixArgs = NoMixArgs
InitProbe == probe = NoProbe /\ quad = NoQuad
Init == InitConv /\ InitSig /\ InitProbe

\* c = OTFConvolver(FIRfilter, data)
Construct(c) ==
  /\ conv[c].status = "unbuilt"
  /\ \E FIRfilter \in Kernels, data \in DataArgs :
       conv' = [conv EXCEPT ![c] = OTFConvolver_init(FIRfilter, data)]
  /\ UNCHANGED sigVars

\* c.next(sample)
CallNext(c) ==
  /\ conv[c].status = "built"
  /\ TotalCalls < MaxCalls
  /\ \E sample \in Samples :
       conv' = [conv EXCEPT ![c] = next(conv[c], sample)]
  /\ UNCHANGED sigVars

NextConv ==
  \/ \E c \in Insts : Construct(c)
  \/ \E c \in Insts : CallNext(c)

SpecConv == Init /\ [][NextConv]_vars

\* sig = DigitalSignal(M, I, Q, rms)
NewDigitalSignal ==
  /\ sig = NoSignal /\ gen = NoGen /\ mixer = NoMixer
  /\ \E M \in 0..MaxLen, I \in ArrayArgs, Q \in ArrayArgs, rms \in RmsArgs,
        srcRe \in NoiseSources, srcIm \in NoiseSources :
       /\ sig' = DigitalSignal_new(M, I, Q, rms, srcRe, srcIm)
       /\ sigArgs' = [M |-> M, I |-> I, Q |-> Q, rms |-> rms]
  /\ UNCHANGED <<probe, quad, conv, gen, genArgs, out, mixer, mixArgs>>

\* gen = SignalGenerator(mode, M, components, rms)
NewSignalGenerator ==
  /\ sig = NoSignal /\ mixer = NoMixer /\ gen = NoGen
  /\ \E mode \in Modes, M \in GenLens, components \in ComponentLists,
        rms \in RmsArgs, srcRe \in NoiseSources, srcIm \in NoiseSources :
       /\ Exact(mode, components)
       /\ gen' = SignalGenerator_init(mode, M, components, rms, srcRe, srcIm)
       /\ genArgs' = [mode |-> mode, M |-> M, components |-> components, rms |-> rms]
  /\ UNCHANGED <<probe, quad, conv, sig, sigArgs, out, mixer, mixArgs>>

\* out = gen.signal()
CallSignal ==
  /\ gen.status = "ok"
  /\ out' = signal(gen)
  /\ UNCHANGED <<probe, quad, conv, sig, sigArgs, gen, genArgs, mixer, mixArgs>>

\* mixer = cls(signal, LO)
NewMixerObject ==
  /\ sig = NoSignal /\ gen = NoGen /\ mixer = NoMixer
  /\ \E cls \in MixerClasses, signal_ \in MixerArgs, LO \in MixerArgs :
       /\ mixer' = Mixer_init(cls, Argument(signal_, "signal"), Argument(LO, "LO"))
       /\ mixArgs' = [signal |-> Argument(signal_, "signal"), LO |-> Argument(LO, "LO")]
  /\ UNCHANGED <<probe, quad, conv, sig, sigArgs, gen, genArgs, out>>

\* mixer.mixed(signal, LO)
CallMixed ==
  /\ mixer.status = "ok"
  /\ mixer.calls < MaxMixed
  /\ \E signal_ \in MixerSignals, LO \in MixerSignals :
       /\ mixer' = [Mixer_mixed(mixer, Argument(signal_, "signal"), Argument(LO, "LO"))
                       EXCEPT !.calls = mixer.calls + 1]
       /\ mixArgs' = [signal |-> Argument(signal_, "signal"), LO |-> Argument(LO, "LO")]
  /\ UNCHANGED <<probe, quad, conv, sig, sigArgs, gen, genArgs, out>>

\* quad = is_quadrature(x) for a signal x at hand: the DigitalSignal
\* constructed, the signal of the generator, the IF of the mixer or one of
\* the arrays handed to the mixer
CallIsQuadrature ==
  /\ ~quad.called
  /\ \E x \in {sig, out, mixer.IF_, mixArgs.signal, mixArgs.LO} :
       /\ x.status = "ok"
       /\ quad' = [called |-> TRUE, signal |-> x, ret |-> is_quadrature(x)]
  /\ UNCHANGED <<probe, conv, sig, sigArgs, gen, genArgs, out, mixer, mixArgs>>

NextSig ==
  \/ CallIsQuadrature
  \/ NewDigitalSignal
  \/ NewSignalGenerator
  \/ CallSignal
  \/ NewMixerObject
  \/ CallMixed

SpecSig == Init /\ [][NextSig]_vars

\* MixerTester.peak_check_test for SimpleMixer
PeakCheckSimple ==
  /\ probe = NoProbe
  /\ \E N \in ToneLens : \E comp \in SignalTones(N), lopars \in LOTones(N) :
       probe' = [cls |-> "SimpleMixer", N |-> N, lopars |-> lopars,
                 channels |-> <<Channel("SimpleMixer", N, comp, lopars,
                                        RealPeaks(N, comp, lopars))>>]
  /\ UNCHANGED objVars

\* MixerTester.peak_check_test for ParallelMixer: the spectra of IF.real and
\* of IF.imag
PeakCheckParallel ==
  /\ probe = NoProbe
  /\ \E N \in ToneLens : \E I \in SignalTones(N), Q \in SignalTones(N), lopars \in LOTones(N) :
       /\ I[1] = 1 /\ Q[1] = 2 /\ I[3] = 0
       /\ probe' = [cls |-> "ParallelMixer", N |-> N, lopars |-> lopars,
                    channels |-> <<Channel("ParallelMixer", N, I, lopars,
                                           RealPeaks(N, I, lopars)),
                                   Channel("ParallelMixer", N, Q, lopars,
                                           RealPeaks(N, Q, lopars))>>]
  /\ UNCHANGED objVars

\* MixerTester.peak_check_test for ComplexMixer
PeakCheckComplex ==
  /\ probe = NoProbe
  /\ \E N \in ToneLens : \E comp \in SignalTones(N), lopars \in LOTones(N) :
       probe' = [cls |-> "ComplexMixer", N |-> N, lopars |-> lopars,
                 channels |-> <<Channel("ComplexMixer", N, comp, lopars,
                                        ComplexPeaks(N, comp, lopars))>>]
  /\ UNCHANGED objVars

NextPeaks ==
  \/ PeakCheckSimple
  \/ PeakCheckParallel
  \/ PeakCheckComplex

SpecPeaks == Init /\ [][NextPeaks]_vars

(***************************************************************************)
(* Properties of the convolver.                                            *)
(***************************************************************************)
Built(c) == conv[c].status = "built"
Last(s) == s[Len(s)]
\* the step taken is a call of next() on c
StepOn(c) == Built(c) /\ Len(conv'[c].data) = Len(conv[c].data) + 1

\* C1: on a convolver built without data with K >= 1 taps, each of the
\* first K-1 calls of next returns None and the K-th and every later call
\* returns a filtered value.
C1_PrimingReturns ==
  \A c \in Insts :
    (Built(c) /\ conv[c].K >= 1) =>
      \A n \in 1..Len(conv[c].returned) :
        IF n < conv[c].K THEN conv[c].returned[n].kind = "None"
                         ELSE conv[c].returned[n].kind = "value"

\* a convolver of three taps has answered five calls
C1_Witness ==
  \E c \in Insts :
    Built(c) /\ conv[c].K = 3 /\ Len(conv[c].returned) = 5

\* F is a unit impulse: one tap 1, the others 0
IsUnitImpulse(F) ==
  \E p \in 1..Len(F) :
    \A n \in 1..Len(F) : F[n] = IF n = p THEN Cx(1, 0) ELSE CZero

RECURSIVE ConvolveTerms(_, _, _, _)
\* the terms k < n of sum_k F[k] * x[j-k] (0-based k and j)
ConvolveTerms(F, x, j, n) ==
  IF n = 0 THEN CZero
  ELSE CAdd(ConvolveTerms(F, x, j, n - 1),
            IF j - (n - 1) >= 0 /\ j - (n - 1) < Len(x)
              THEN CMul(F[n], x[j - (n - 1) + 1]) ELSE CZero)
\* output j (0-based) of the direct batch convolution of F and x
DirectConvolve(F, x, j) == ConvolveTerms(F, x, j, Len(F))

\* C2: with a unit-impulse kernel every value returned once primed equals
\* the corresponding output of the direct batch convolution of the kernel
\* and the data, at one fixed alignment: the input delayed by a fixed offset.
C2_ImpulseMatchesBatch ==
  \A c \in Insts :
    (Built(c) /\ IsUnitImpulse(conv[c].F)) =>
      \E a \in (0 - MaxK - 1)..(MaxK + 1) :
        \A n \in conv[c].K..Len(conv[c].returned) :
          /\ conv[c].returned[n].kind = "value"
          /\ conv[c].returned[n].val = DirectConvolve(conv[c].F, conv[c].data, n - 1 + a)

\* C3: with the single-tap kernel [1] the n-th call of next returns the
\* n-th input sample.
C3_SingleTapIdentity ==
  \A c \in Insts :
    (Built(c) /\ conv[c].F = <<Cx(1, 0)>>) =>
      \A n \in 1..Len(conv[c].returned) :
        /\ conv[c].returned[n].kind = "value"
        /\ conv[c].returned[n].val = conv[c].data[n]

\* the values of a sequence with their multiplicities
BagOf(s) == [v \in {s[i] : i \in 1..Len(s)} |-> Cardinality({i \in 1..Len(s) : s[i] = v})]

\* C4: once at least K samples have been supplied the K slots of the
\* circular buffer hold exactly the K most recent input samples.
C4_BufferHoldsLastK ==
  \A c \in Insts :
    (Built(c) /\ conv[c].K >= 1 /\ Len(conv[c].data) >= conv[c].K) =>
      BagOf(conv[c].circ_buf) =
        BagOf(SubSeq(conv[c].data, Len(conv[c].data) - conv[c].K + 1, Len(conv[c].data)))

RECURSIVE RotSum(_, _, _, _)
\* the terms n < m of sum_n kernel[n] * buffer[(oldest+n) mod K]
RotSum(F, buf, oldest, m) ==
  IF m = 0 THEN CZero
  ELSE CAdd(RotSum(F, buf, oldest, m - 1),
            CMul(F[m], buf[((oldest + m - 1) % Len(F)) + 1]))

RECURSIVE Streamed(_, _)
\* a convolver built without data after next() on each sample of d in turn
Streamed(FIRfilter, d) ==
  IF d = <<>> THEN OTFConvolver_init(FIRfilter, NoData)
  ELSE next(Streamed(FIRfilter, SubSeq(d, 1, Len(d) - 1)), Last(d))

C6_BatchEqualsStreaming ==
  \A c \in Insts :
    (conv[c].status # "unbuilt" /\ conv[c].M # <<>>) =>
      /\ Built(c)
      /\ Len(conv[c].filtered) = conv[c].M[1]
      /\ conv[c].filtered = Streamed(conv[c].F, conv[c].data).filtered
      /\ \A n \in 1..Len(conv[c].filtered) : n < conv[c].K => conv[c].filtered[n] = CZero

\* C7: no convolver object with K = 0 exists: the constructor fails on a
\* zero-length kernel.
C7_EmptyKernelRejected ==
  \A c \in Insts : Built(c) => conv[c].K >= 1

\* C8: no step changes the kernel or K; the buffer and oldest of an object
\* change only in a call of next on that object; a step changes no slot
\* except to the sample supplied (the buffer is never reset); an unprimed
\* step leaves oldest unchanged.
C8_Frame ==
  [][\A c \in Insts :
       Built(c) =>
         /\ conv'[c].status = "built"
         /\ conv'[c].F = conv[c].F
         /\ conv'[c].K = conv[c].K
         /\ Len(conv'[c].circ_buf) = conv[c].K
         /\ ~StepOn(c) => /\ conv'[c].circ_buf = conv[c].circ_buf
                          /\ conv'[c].oldest = conv[c].oldest
         /\ StepOn(c) =>
              /\ \A i \in 1..conv[c].K :
                   \/ conv'[c].circ_buf[i] = conv[c].circ_buf[i]
                   \/ conv'[c].circ_buf[i] = Last(conv'[c].data)
              /\ Len(conv'[c].data) < conv[c].K => conv'[c].oldest = conv[c].oldest]_vars

\* one object has taken an unprimed step and a primed step while the other,
\* built too, holds its buffer of zeros
C8_Witness ==
  \E c, d \in Insts :
    /\ c # d /\ Built(c) /\ Built(d)
    /\ conv[c].K = 2 /\ Len(conv[c].data) = 2
    /\ conv[d].K = 2 /\ conv[d].data = <<>> /\ conv[d].circ_buf = zeros(2)

(***************************************************************************)
(* Properties of the signals.                                              *)
(***************************************************************************)
\* C9: constructing a signal from I and Q arrays of lengths a and b succeeds
\* for every a and b and yields a complex signal of length min(a, b) whose
\* real part is the first min(a, b) values of I and whose imaginary part is
\* the first min(a, b) values of Q.
C9_TruncatesToShorter ==
  (sigArgs.I.given /\ sigArgs.Q.given) =>
    LET n == Min(Len(sigArgs.I.val), Len(sigArgs.Q.val))
    IN /\ sig.status = "ok"
       /\ sig.dtype = "complex"
       /\ Len(sig.s) = n
       /\ \A i \in 1..n : sig.s[i] = Cx(sigArgs.I.val[i], sigArgs.Q.val[i])

\* C10: storage type always matches the recorded mode: every signal returned
\* by DigitalSignal construction, by SignalGenerator.signal() of a generator
\* built with one of the modes real, analytic and complex (with or without
\* components), or delivered as a mixer's IF, has float storage if and only
\* if its recorded mode is "real", and complex storage if and only if its
\* recorded mode is "analytic" or "complex".
StorageMatchesMode(x) ==
  x.status = "ok" =>
    /\ x.dtype = "float" <=> x.info.mode = ModeReal
    /\ x.dtype = "complex" <=> x.info.mode \in {ModeAnalytic, ModeComplex}
C10_StorageMatchesMode ==
  /\ StorageMatchesMode(sig)
  /\ gen.mode \in {ModeReal, ModeAnalytic, ModeComplex} => StorageMatchesMode(out)
  /\ StorageMatchesMode(mixer.IF_)

(***************************************************************************)
(* Properties of the signal generator.                                     *)
(***************************************************************************)
RecognizedModes == {ModeReal, ModeAnalytic, ModeComplex}
\* a SignalGenerator(...) call has been made
GenCalled == gen # NoGen

\* C11: for every mode string that is not one of real, analytic and complex,
\* constructing a SignalGenerator fails with ValueError (the invalid mode
\* error): the caller receives no generator, hence no signal.
C11_InvalidModeRejected ==
  (GenCalled /\ genArgs.mode \notin RecognizedModes) => gen.status = "ValueError"

\* C12: after generating a signal from an ordered list of n components, the
\* component metadata of the signal holds exactly n entries, and entry k
\* (k = 0..n-1) holds the parameters of the k-th component of the list.
C12_Provenance ==
  gen.status = "ok" =>
    LET n == Len(genArgs.components)
    IN /\ DOMAIN gen.S.info.comps = 0..(n - 1)
       /\ \A k \in 0..(n - 1) : gen.S.info.comps[k].vals = genArgs.components[k + 1]

(***************************************************************************)
(* Properties of the mixers.  While mixer.calls = 0 the mixer is as its    *)
(* constructor left it and mixArgs holds the constructor's arguments.      *)
(***************************************************************************)
Constructed == mixer.cls # "none" /\ mixer.calls = 0
BothArrays == IsNdarray(mixArgs.signal) /\ IsNdarray(mixArgs.LO)
AnAbsent == IsNone(mixArgs.signal) \/ IsNone(mixArgs.LO)
\* signal[n] * LO[n] over the shorter length
Product(a, b) == [i \in 1..Min(Len(a.s), Len(b.s)) |-> CMul(a.s[i], b.s[i])]

\* C13: SimpleMixer and ComplexMixer each fail with ValueError (the type
\* mismatch error), delivering no IF, whenever the signal or the local
\* oscillator handed to the constructor is complex, and complete without
\* error when both are float.
C13_RealInputsRequired ==
  (Constructed /\ BothArrays /\ mixer.cls \in {"SimpleMixer", "ComplexMixer"}) =>
    IF mixArgs.signal.dtype = "complex" \/ mixArgs.LO.dtype = "complex"
      THEN mixer.status = "ValueError" /\ mixer.IF_ = Unset
      ELSE mixer.status = "ok" /\ mixer.IF_.status = "ok"
C13_Witness ==
  /\ Constructed /\ mixer.cls = "ComplexMixer"
  /\ IsNdarray(mixArgs.signal) /\ mixArgs.signal.dtype = "float"
  /\ IsNdarray(mixArgs.LO) /\ mixArgs.LO.dtype = "complex"
  /\ mixer.status = "ValueError"

\* C14: ParallelMixer fails with ValueError (the type mismatch error)
\* whenever the signal is not complex or the local oscillator is not float:
\* the caller of the constructor gets the error and never a mixer whose IF
\* is missing.
C14_ParallelRejects ==
  (Constructed /\ BothArrays /\ mixer.cls = "ParallelMixer"
     /\ (mixArgs.signal.dtype # "complex" \/ mixArgs.LO.dtype # "float")) =>
    mixer.status = "ValueError"

\* C15: constructing any of the four mixers with the signal or the local
\* oscillator absent (None) completes without raising and leaves the
\* attribute IF defined and None.
C15_AbsentAllowed ==
  (Constructed /\ AnAbsent) => (mixer.status = "ok" /\ mixer.IF_ = NoSignal)

\* C16: BasicMixer.mixed on a signal of length a and an LO of length b
\* returns a signal of length min(a, b) whose sample n is signal[n] * LO[n];
\* it logs one warning if a differs from b and nothing otherwise, and it
\* never fails.
C16_Step ==
  (mixer.cls = "BasicMixer" /\ mixer'.calls = mixer.calls + 1) =>
    LET a == Len(mixArgs'.signal.s)
        b == Len(mixArgs'.LO.s)
    IN /\ mixer'.status = "ok"
       /\ mixer'.ret.status = "ok"
       /\ mixer'.ret = mixer'.IF_
       /\ Len(mixer'.ret.s) = Min(a, b)
       /\ mixer'.ret.s = Product(mixArgs'.signal, mixArgs'.LO)
       /\ IF a = b
            THEN mixer'.log = mixer.log
            ELSE /\ Len(mixer'.log) = Len(mixer.log) + 1
                 /\ SubSeq(mixer'.log, 1, Len(mixer.log)) = mixer.log
                 /\ Last(mixer'.log).level = "warning"
C16_BaseMixTruncates == [][C16_Step]_vars
C16_Witness ==
  /\ mixer.cls = "BasicMixer" /\ mixer.calls > 0
  /\ Len(mixArgs.signal.s) = 2 /\ Len(mixArgs.LO.s) = 4
  /\ Len(mixer.ret.s) = 2
  /\ mixer.log # <<>> /\ Last(mixer.log).msg = "mixed: LO truncated to length of signal"

\* the default empty signal: DigitalSignal(M), complex zeros
IsDefaultEmpty(x) == x.dtype = "complex" /\ \A i \in 1..Len(x.s) : x.s[i] = CZero
AllZeros(x) == \A i \in 1..Len(x.s) : x.s[i] = CZero
\* the storage and mode of the IF of BasicMixer(signal, LO): float and "real"
\* exactly when both inputs are float, complex and "complex" with I and Q
\* the real and imaginary parts of the product otherwise
TypeTable ==
  /\ mixer.status = "ok" /\ mixer.IF_.status = "ok"
  /\ mixer.IF_.s = Product(mixArgs.signal, mixArgs.LO)
  /\ IF mixArgs.signal.dtype = "float" /\ mixArgs.LO.dtype = "float"
       THEN mixer.IF_.dtype = "float" /\ mixer.IF_.info.mode = ModeReal
       ELSE mixer.IF_.dtype = "complex" /\ mixer.IF_.info.mode = ModeComplex

\* C17 (as amended): for every combination of signal and LO among the
\* default empty signal, float signals and complex signals, the IF of
\* BasicMixer follows the type table, and it is all zeros whenever at least
\* one input is the default empty signal.
C17_TypeTable ==
  (Constructed /\ BothArrays /\ mixer.cls = "BasicMixer") =>
    /\ TypeTable
    /\ (IsDefaultEmpty(mixArgs.signal) \/ IsDefaultEmpty(mixArgs.LO)) => AllZeros(mixer.IF_)
C17_Witness ==
  /\ Constructed /\ mixer.cls = "BasicMixer"
  /\ IsNdarray(mixArgs.signal) /\ mixArgs.signal.dtype = "float"
  /\ IsNdarray(mixArgs.LO) /\ mixArgs.LO.dtype = "complex"
  /\ mixer.IF_.dtype = "complex" /\ ~AllZeros(mixer.IF_)
\* C17 (as stated): the same, with the IF all zeros exactly when at least
\* one input is the default empty signal.
C17_ZerosExactly ==
  (Constructed /\ BothArrays /\ mixer.cls = "BasicMixer") =>
    /\ TypeTable
    /\ (IsDefaultEmpty(mixArgs.signal) \/ IsDefaultEmpty(mixArgs.LO)) <=> AllZeros(mixer.IF_)

\* C18: no mixer writes into its inputs: whatever the constructor or the
\* mixed method of any of the four mixers stores, into samples or into an
\* info dict, goes to memory the mixer allocated itself, never to the
\* buffer or the info dict of the signal or of the LO handed in, also when
\* an input is truncated.
C18_InputsNotWritten ==
  \A w \in mixer.wrote : w.of = "own"
C18_Witness ==
  /\ mixer.cls = "ParallelMixer" /\ mixer.calls > 0
  /\ Len(mixArgs.signal.s) = 4 /\ Len(mixArgs.LO.s) = 2
  /\ mixer.ret.status = "ok"
  /\ mixArgs.signal.buffer = "signal" /\ mixArgs.LO.dict = "LO"
  /\ [part |-> "info", of |-> "own"] \in mixer.wrote
  /\ [part |-> "samples", of |-> "own"] \in mixer.wrote

\* what ParallelMixer.mixed(signal, LO) returns on a new mixer
ParallelMixed(signal_, LO) == ParallelMixer_mixed(NewMixer("ParallelMixer"), signal_, LO).ret

\* C19: for a complex signal and a float LO the IF of ParallelMixer has, at
\* every sample n, real part real(signal[n]) * LO[n] and imaginary part
\* imag(signal[n]) * LO[n], is complex with the mode "complex", and is the
\* same from the constructor and from ParallelMixer.mixed.
C19_ParallelChannels ==
  (mixer.cls = "ParallelMixer" /\ BothArrays
     /\ mixArgs.signal.dtype = "complex" /\ mixArgs.LO.dtype = "float") =>
    LET n == Min(Len(mixArgs.signal.s), Len(mixArgs.LO.s))
    IN /\ mixer.status = "ok" /\ mixer.IF_.status = "ok"
       /\ mixer.IF_.dtype = "complex" /\ mixer.IF_.info.mode = ModeComplex
       /\ mixer.IF_.s = [i \in 1..n |-> Cx(mixArgs.signal.s[i][1] * mixArgs.LO.s[i][1],
                                            mixArgs.signal.s[i][2] * mixArgs.LO.s[i][1])]
       /\ mixer.IF_ = ParallelMixed(mixArgs.signal, mixArgs.LO)
       /\ mixer.IF_ = ParallelMixer_init(NewMixer("ParallelMixer"), mixArgs.signal, mixArgs.LO).IF_
C19_Witness ==
  /\ Constructed /\ mixer.cls = "ParallelMixer"
  /\ IsNdarray(mixArgs.signal) /\ mixArgs.signal.dtype = "complex"
  /\ IsNdarray(mixArgs.LO) /\ mixArgs.LO.dtype = "float"
  /\ \E i \in 1..Len(mixer.IF_.s) : mixer.IF_.s[i][1] # 0 /\ mixer.IF_.s[i][2] # 0

\* C20: ComplexMixer converts the LO with the splitter before multiplying:
\* for a float signal and a float LO the IF delivered is the elementwise
\* product of the signal with QuadratureSplitter.split(LO), the analytic LO
\* of half amplitude.
C20_UsesSplitter ==
  (mixer.cls = "ComplexMixer" /\ BothArrays /\ mixer.status = "ok"
     /\ mixArgs.signal.dtype = "float" /\ mixArgs.LO.dtype = "float"
     /\ SplitExact(mixArgs.LO)) =>
    /\ mixer.IF_.status = "ok"
    /\ mixer.IF_.s = Product(mixArgs.signal, QuadratureSplitter_split(mixArgs.LO))

(***************************************************************************)
(* Properties of the peak checks.                                          *)
(***************************************************************************)
\* the signal is a quarter cycle out of phase with the LO and one of the
\* two product tones sits on the mean or on the Nyquist mode, where it
\* vanishes (so does the whole signal when freq = 0)
Cancels(N, comp, lofrq) ==
  /\ (4 * comp[3]) % N = 0 /\ ((4 * comp[3]) \div N) % 2 = 1
  /\ comp[2] = 0 \/ Abs(comp[2]) = lofrq \/ 2 * (Abs(comp[2]) + lofrq) = N
RealProbe == probe.cls \in {"SimpleMixer", "ParallelMixer"}

\* C21 (as amended): for a real signal tone at frequency f and a real LO
\* tone at f0 with |f| < N/2 and 0 < f0 < N/2, neither product tone
\* cancelling, the spectrum of the IF of SimpleMixer, and of each of the I
\* and Q channels of ParallelMixer, has its peaks exactly at |f|+f0 and
\* |f|-f0 made non-negative and reflected to N - tone from N/2 on; both
\* lie in 0..N/2.
C21_RealFolding ==
  RealProbe =>
    \A c \in 1..Len(probe.channels) :
      LET ch == probe.channels[c]
      IN ~Cancels(probe.N, ch.comp, probe.lopars[2]) =>
           /\ ch.peaks = ch.expected
           /\ ch.expected \subseteq 0..(probe.N \div 2)
C21_Witness ==
  /\ probe.cls = "ParallelMixer" /\ probe.N = 6
  /\ probe.channels[2].comp[2] = 2 /\ probe.lopars[2] = 2
  /\ probe.channels[2].peaks = {2, 0}
  /\ probe.channels[1].peaks = probe.channels[1].expected
\* C21 (as stated): the same for every signal tone, whatever its phase.
C21_EveryTone ==
  RealProbe =>
    \A c \in 1..Len(probe.channels) :
      /\ probe.channels[c].peaks = probe.channels[c].expected
      /\ probe.channels[c].expected \subseteq 0..(probe.N \div 2)

\* C22: for a real signal tone at frequency f and a real LO tone at f0 with
\* |f| < N/2 and 0 < f0 < N/2 (neither product tone cancelling), the peaks
\* of the spectrum of the IF of ComplexMixer are exactly at |f|+f0 and
\* |f|-f0 after a value above N/2 is reflected to N - value and a negative
\* value is wrapped to N + value; both lie in 0..N-1.
C22_ComplexFolding ==
  probe.cls = "ComplexMixer" =>
    LET ch == probe.channels[1]
    IN ~Cancels(probe.N, ch.comp, probe.lopars[2]) =>
         /\ ch.peaks = ch.expected
         /\ ch.expected \subseteq 0..(probe.N - 1)

(***************************************************************************)
(* Properties of is_quadrature.                                            *)
(***************************************************************************)
\* C23: is_quadrature(signal) returns true if and only if the signal is
\* complex and, for every sample, the product of the sample with its own
\* conjugate has zero imaginary part; it returns false for every float
\* signal.
C23_IsQuadrature ==
  quad.called =>
    (quad.ret <=>
       /\ quad.signal.dtype = "complex"
       /\ \A i \in 1..Len(quad.signal.s) :
            CMul(quad.signal.s[i], Conjugate(quad.signal.s[i]))[2] = 0)

(***************************************************************************)
(* Further properties of the generator.                                    *)
(***************************************************************************)
\* Icoef cos(2 pi freq m / M) + i Qcoef sin(2 pi freq m / M), the term the
\* docstring of SignalGenerator gives for one component of the complex mode
DocumentedTerm(comp, m, M) ==
  Cx(comp[2] * Cos4(QuarterTurns(comp[1], m, M)),
     comp[3] * Sin4(QuarterTurns(comp[1], m, M)))

\* C24: in Complex mode each component (frequency, Icoef, Qcoef) contributes
\* Icoef*cos(2 pi frequency n/N) to the real part of sample n and
\* Qcoef*sin(2 pi frequency n/N) to its imaginary part, so that the real
\* part does not depend on any Qcoef nor the imaginary part on any Icoef.
C24_ComplexComponents ==
  (gen.status = "ok" /\ genArgs.mode = ModeComplex) =>
    \A n \in 0..(genArgs.M - 1) :
      gen.S.s[n + 1] =
        CSum([k \in 1..Len(genArgs.components) |->
                DocumentedTerm(genArgs.components[k], n, genArgs.M)])

\* C25: noise injection by SignalGenerator uses the requested rms: with a
\* non-zero rms an analytic or complex signal gets noise on its real and
\* imaginary parts with per-part scale rms/sqrt(2), a real signal gets noise
\* of scale rms on its real part only, so that generators which differ only
\* in rms use different scales.
C25_NoiseUsesRms ==
  (gen.status = "ok" /\ genArgs.rms # 0 /\ genArgs.mode \in RecognizedModes) =>
    IF genArgs.mode = ModeReal
      THEN /\ gen.S.scale = Scale(genArgs.rms, FALSE)
           /\ \A i \in 1..Len(gen.S.nz) : gen.S.nz[i][2] = 0
      ELSE gen.S.scale = Scale(genArgs.rms, TRUE)

(***************************************************************************)
(* Further properties of the convolver.                                    *)
(***************************************************************************)
\* C26: after any n calls of next on a convolver built without data, data
\* and filtered both have exactly n entries, entry k of filtered being the
\* zero placeholder for an unprimed step and otherwise the value the k-th
\* call returned.
C26_HistoriesInStep ==
  \A c \in Insts :
    (Built(c) /\ conv[c].K >= 1) =>
      LET n == Len(conv[c].returned)
      IN /\ Len(conv[c].data) = n
         /\ Len(conv[c].filtered) = n
         /\ \A k \in 1..n :
              conv[c].filtered[k] =
                IF conv[c].returned[k].kind = "None" THEN CZero
                ELSE conv[c].returned[k].val

\* the slot (0-based) a call of next on c writes the sample into: idx while
\* the buffer fills, the advanced oldest once primed
WrittenSlot(c) ==
  IF Len(conv'[c].data) < conv[c].K THEN Len(conv'[c].data) ELSE conv'[c].oldest

\* C27: in every reachable state of a convolver with K >= 1,
\* 0 <= oldest < K; oldest is 0 until the convolver is primed and after
\* n >= K-1 calls of next it equals (n - K + 1) mod K; every buffer write
\* made by a step is to an index in 0..K-1.
C27_OldestRotates ==
  /\ [](\A c \in Insts :
          (Built(c) /\ conv[c].K >= 1) =>
            LET n == Len(conv[c].data)
                K == conv[c].K
            IN /\ conv[c].oldest \in 0..(K - 1)
               /\ n < K => conv[c].oldest = 0
               /\ n >= K - 1 => conv[c].oldest = (n - K + 1) % K)
  /\ [][\A c \in Insts :
          (StepOn(c) /\ conv[c].K >= 1) =>
            /\ WrittenSlot(c) \in 0..(conv[c].K - 1)
            /\ conv'[c].circ_buf =
                 [conv[c].circ_buf EXCEPT ![WrittenSlot(c) + 1] = Last(conv'[c].data)]]_vars

\* a three-tap convolver after five calls: oldest has gone round the buffer
\* and is back at slot 0
C27_Witness ==
  \E c \in Insts :
    /\ Built(c) /\ conv[c].K = 3 /\ Len(conv[c].data) = 5
    /\ conv[c].oldest = 0
    /\ conv[c].circ_buf[1] = conv[c].data[5]

\* c and d have the same kernel and have both answered n calls of next,
\* the last of them primed, on the same samples except perhaps the last
SameButLast(c, d) ==
  /\ Built(c) /\ Built(d)
  /\ conv[c].F = conv[d].F /\ conv[c].K >= 1
  /\ Len(conv[c].data) = Len(conv[d].data)
  /\ Len(conv[c].data) >= conv[c].K
  /\ SubSeq(conv[c].data, 1, Len(conv[c].data) - 1) =
       SubSeq(conv[d].data, 1, Len(conv[d].data) - 1)

====
